---- MODULE Spec2Model ----
(***************************************************************************)
(* Whale tracker backend: the WhaleDetector class (rolling trade history,  *)
(* whale metrics, chart aggregation) of src/backend/whaleDetector.js and   *)
(* the Binance feed message handler, the upstream connection, the timers,  *)
(* the HTTP routes and the shutdown of src/backend/server.js, the client   *)
(* sockets of src/backend/socket.js, and the indicators and candles of the *)
(* trading UI (src/unnamed/part_000).                                      *)
(*                                                                         *)
(* JavaScript numbers are modelled as records [nan, v]: an integer v, or   *)
(* NaN.  Prices and quantities are integers (no fractional digits); time   *)
(* is in milliseconds.                                                     *)
(***************************************************************************)
EXTENDS Integers, Sequences, FiniteSets, TLC

(***************************************************************************)
(* Bounds of the model.                                                    *)
(***************************************************************************)
\* capacity of tradeHistory; stands for this.MAX_HISTORY = 3600 (whaleDetector.js:18),
\* kept a multiple of 5 like 3600
MAX_HISTORY == 5
\* processTrade calls explored under Spec (rich inputs, no eviction needed)
MaxTrades == 3
\* processTrade calls explored under RollSpec beyond a full history
RollExtra == 2
\* feed messages explored under PollSpec beyond a full history
PollExtra == 1
\* clock advances explored
MaxTicks == 1
\* feed messages explored under ServerSpec
MaxMsgs == 4
\* longest sequence of closes and largest period given to the indicators
MaxCloses == 4
MaxPeriod == 3
\* trade_update events explored under CandleSpec
MaxUITrades == 3
\* client sockets and request_chart_update events per socket explored
MaxSockets == 2
MaxRequests == 1
\* feed messages explored under ClientSpec
MaxClientMsgs == 1
\* connectToBinance calls explored: more than the first one and all retries
MaxConnects == 7

(***************************************************************************)
(* Program constants.                                                      *)
(***************************************************************************)
WHALE_THRESHOLD == 500000
VOLUME_RESET_MS == 60000
BUCKET_MS == 60000
ONE_HOUR_MS == 3600000
\* Date.now() when the detector is constructed
StartTime == 100000

(***************************************************************************)
(* JavaScript number values.                                               *)
(***************************************************************************)
NaN == [nan |-> TRUE, v |-> 0]
Num(n) == [nan |-> FALSE, v |-> n]
IsNaN(x) == x.nan
Mul(a, b) == IF a.nan \/ b.nan THEN NaN ELSE Num(a.v * b.v)
Add(a, b) == IF a.nan \/ b.nan THEN NaN ELSE Num(a.v + b.v)
\* a > b on numbers: false whenever an operand is NaN
Gt(a, b) == ~a.nan /\ ~b.nan /\ a.v > b.v
MathMax(a, b) == IF a.nan \/ b.nan THEN NaN ELSE IF a.v >= b.v THEN a ELSE b
\* Number.prototype.toFixed: a decimal string with `digits` fractional digits
toFixed(x, digits) == [fixed |-> x, digits |-> digits]
\* Date.prototype.toISOString of the instant t
toISOString(t) == [iso |-> t]
\* Date.prototype.toLocaleTimeString of the instant t
toLocaleTimeString(t) == [localeTime |-> t]
\* a / b kept as an exact fraction
Div(a, b) == [num |-> a, den |-> b]

(***************************************************************************)
(* parseFloat on a string (a sequence of characters): optional sign, then  *)
(* the longest prefix of digits; NaN when there is no digit.               *)
(***************************************************************************)
DigitChars == <<"0", "1", "2", "3", "4", "5", "6", "7", "8", "9">>
IsDigit(c) == \E i \in 1..10 : DigitChars[i] = c
DigitVal(c) == (CHOOSE i \in 1..10 : DigitChars[i] = c) - 1

RECURSIVE DigitPrefixLen(_)
DigitPrefixLen(s) ==
  IF s = <<>> \/ ~IsDigit(Head(s)) THEN 0 ELSE 1 + DigitPrefixLen(Tail(s))

RECURSIVE DigitsValue(_, _)
DigitsValue(s, n) ==
  IF n = 0 THEN 0 ELSE DigitsValue(s, n - 1) * 10 + DigitVal(s[n])

parseFloat(s) ==
  LET signed == s # <<>> /\ Head(s) \in {"-", "+"}
      body == IF signed THEN Tail(s) ELSE s
      n == DigitPrefixLen(body)
      mag == DigitsValue(body, n)
  IN IF n = 0 THEN NaN
     ELSE IF signed /\ Head(s) = "-" THEN Num(0 - mag) ELSE Num(mag)

\* parseFloat(obj.f): a missing field is undefined, which parses to NaN
parseFloatField(obj, f) == IF f \in DOMAIN obj THEN parseFloat(obj[f]) ELSE NaN

(***************************************************************************)
(* State.                                                                  *)
(***************************************************************************)
VARIABLES
  tradeHistory,         \* this.tradeHistory
  lastPrice,            \* this.lastPrice
  aggregatedVolume,     \* this.aggregatedVolume
  lastVolumeResetTime,  \* this.lastVolumeResetTime
  metrics,              \* this.metrics
  now,                  \* Date.now()
  ticks,                \* clock advances so far
  ret,                  \* the last call and what it returned
  calls,                \* processTrade calls so far
  processed,            \* trade records built since construction or the last reset
  outbox,               \* io.emit calls of the last callback that broadcast
  crashed,              \* an error escaped a callback
  msgs,                 \* feed messages delivered so far
  sawMalformed,         \* a malformed feed message was delivered
  emitLog,              \* io.emit calls of all the feed message handlers so far
  allTrades,            \* trading UI: allTrades
  currentInterval,      \* trading UI: currentInterval, in minutes
  candleData,           \* trading UI: candleData
  priceHistory,         \* trading UI: priceHistory
  reconnectAttempts,    \* server.js: reconnectAttempts
  wsState,              \* server.js: binanceWS, "none" (null) or the state of the socket
  reconnectTimers,      \* pending setTimeout(connectToBinance, RECONNECT_DELAY) timers
  connects,             \* connectToBinance calls so far
  closesInRow,          \* 'close' events since the last 'open' event
  shutdown,             \* "running", "closing" after SIGINT, "exited" after process.exit
  connectedClients,     \* socket.js: connectedClients
  sockets,              \* client sockets accepted so far; their ids are 1..sockets
  gone,                 \* ids of the sockets whose 'disconnect' event fired
  inbox                 \* per socket, the events sent to it with socket.emit

detVars == <<tradeHistory, lastPrice, aggregatedVolume, lastVolumeResetTime, metrics>>
srvVars == <<outbox, crashed, msgs, sawMalformed, emitLog>>
uiVars == <<allTrades, currentInterval, candleData, priceHistory>>
connVars == <<reconnectAttempts, wsState, reconnectTimers, connects, closesInRow, shutdown>>
cliVars == <<connectedClients, sockets, gone, inbox>>
vars == <<tradeHistory, lastPrice, aggregatedVolume, lastVolumeResetTime, metrics,
          now, ticks, ret, calls, processed, outbox, crashed, msgs, sawMalformed, emitLog,
          allTrades, currentInterval, candleData, priceHistory,
          reconnectAttempts, wsState, reconnectTimers, connects, closesInRow, shutdown,
          connectedClients, sockets, gone, inbox>>

\* the detector instance as one value
Self == [tradeHistory |-> tradeHistory, lastPrice |-> lastPrice,
         aggregatedVolume |-> aggregatedVolume,
         lastVolumeResetTime |-> lastVolumeResetTime, metrics |-> metrics]

SetSelf(s) ==
  /\ tradeHistory' = s.tradeHistory
  /\ lastPrice' = s.lastPrice
  /\ aggregatedVolume' = s.aggregatedVolume
  /\ lastVolumeResetTime' = s.lastVolumeResetTime
  /\ metrics' = s.metrics

\* lastWhaleTime: <<>> is null, <<s>> is the string s
Null == <<>>

InitialMetrics ==
  [totalVolume24h |-> 0, whaleCount |-> 0, maxWhaleAmount |-> Num(0),
   lastWhaleTime |-> Null, averageWhaleSize |-> Div(Num(0), 1)]

(***************************************************************************)
(* WhaleDetector methods: each maps the instance (and the clock) to the    *)
(* instance after the call and the value returned.                         *)
(***************************************************************************)
\* variant: maxWhaleAmount takes the latest whale instead of the maximum
onWhaleDetected_latest(self, trade, t) ==
  LET count == self.metrics.whaleCount + 1
      max == trade.tradeValue
  IN [self EXCEPT !.metrics =
        [totalVolume24h |-> self.metrics.totalVolume24h,
         whaleCount |-> count,
         maxWhaleAmount |-> max,
         lastWhaleTime |-> <<toISOString(t)>>,
         averageWhaleSize |-> Div(max, count)]]

\* variant: lastWhaleTime is not set
onWhaleDetected_noTime(self, trade, t) ==
  LET count == self.metrics.whaleCount + 1
      max == MathMax(self.metrics.maxWhaleAmount, trade.tradeValue)
  IN [self EXCEPT !.metrics =
        [totalVolume24h |-> self.metrics.totalVolume24h,
         whaleCount |-> count,
         maxWhaleAmount |-> max,
         lastWhaleTime |-> self.metrics.lastWhaleTime,
         averageWhaleSize |-> Div(max, count)]]

\* variant: the average is computed before maxWhaleAmount is updated
onWhaleDetected_staleAverage(self, trade, t) ==
  LET count == self.metrics.whaleCount + 1
      max == MathMax(self.metrics.maxWhaleAmount, trade.tradeValue)
  IN [self EXCEPT !.metrics =
        [totalVolume24h |-> self.metrics.totalVolume24h,
         whaleCount |-> count,
         maxWhaleAmount |-> max,
         lastWhaleTime |-> <<toISOString(t)>>,
         averageWhaleSize |-> Div(self.metrics.maxWhaleAmount, count)]]

onWhaleDetected(self, trade, t) ==
  LET count == self.metrics.whaleCount + 1
      max == MathMax(self.metrics.maxWhaleAmount, trade.tradeValue)
  IN [self EXCEPT !.metrics =
        [totalVolume24h |-> self.metrics.totalVolume24h,
         whaleCount |-> count,
         maxWhaleAmount |-> max,
         lastWhaleTime |-> <<toISOString(t)>>,
         averageWhaleSize |-> Div(max, count)]]

\* variant: push without the shift
pushHistory_noShift(history, record) == Append(history, record)

\* variant: at capacity the new record is removed instead of the oldest
pushHistory_pop(history, record) ==
  LET pushed == Append(history, record)
  IN IF Len(pushed) > MAX_HISTORY THEN history ELSE pushed

\* variant: the shift of one call is deferred to the start of the next call
pushHistory_deferShift(history, record) ==
  Append(IF Len(history) > MAX_HISTORY THEN Tail(history) ELSE history, record)

\* this.tradeHistory.push(record); if longer than MAX_HISTORY, shift()
pushHistory(history, record) ==
  LET pushed == Append(history, record)
  IN IF Len(pushed) > MAX_HISTORY THEN Tail(pushed) ELSE pushed

\* variant: the whale flag uses >= instead of >
tradeRecordOf_ge(trade, t) ==
  LET price == parseFloatField(trade, "p")
      quantity == parseFloatField(trade, "q")
      timestamp == IF "T" \in DOMAIN trade /\ trade.T # 0 THEN trade.T ELSE t
      tradeValue == Mul(price, quantity)
  IN [price |-> price, quantity |-> quantity, tradeValue |-> tradeValue,
      timestamp |-> timestamp,
      isWhale |-> ~IsNaN(tradeValue) /\ tradeValue.v >= WHALE_THRESHOLD]

\* the trade record processTrade builds from the raw trade
tradeRecordOf(trade, t) ==
  LET price == parseFloatField(trade, "p")
      quantity == parseFloatField(trade, "q")
      timestamp == IF "T" \in DOMAIN trade /\ trade.T # 0 THEN trade.T ELSE t
      tradeValue == Mul(price, quantity)
  IN [price |-> price, quantity |-> quantity, tradeValue |-> tradeValue,
      timestamp |-> timestamp, isWhale |-> Gt(tradeValue, Num(WHALE_THRESHOLD))]

\* variant: onWhaleDetected runs for every trade
detectWhale_always(self, record, t) == onWhaleDetected(self, record, t)

\* if (tradeValue > WHALE_THRESHOLD) this.onWhaleDetected(tradeRecord)
detectWhale(self, record, t) ==
  IF Gt(record.tradeValue, Num(WHALE_THRESHOLD))
  THEN onWhaleDetected(self, record, t) ELSE self

\* variant: the 60 seconds are measured on the timestamp of the trade just stored
resetVolume_tradeTime(self, t) ==
  LET ts == self.tradeHistory[Len(self.tradeHistory)].timestamp
  IN IF ts - self.lastVolumeResetTime > VOLUME_RESET_MS
     THEN [self EXCEPT !.aggregatedVolume = Num(0), !.lastVolumeResetTime = ts]
     ELSE self

\* reset the aggregated volume once 60 seconds have passed
resetVolume(self, t) ==
  IF t - self.lastVolumeResetTime > VOLUME_RESET_MS
  THEN [self EXCEPT !.aggregatedVolume = Num(0), !.lastVolumeResetTime = t]
  ELSE self

\* lastPrice, aggregatedVolume and tradeHistory after the record is stored
storeRecord(self, record) ==
  [self EXCEPT !.lastPrice = record.price,
               !.aggregatedVolume = Add(self.aggregatedVolume, record.quantity),
               !.tradeHistory = pushHistory(self.tradeHistory, record)]

\* variant: processTrade returns before the whale metrics are updated
processRecord_deferWhale(self, record, t) ==
  [self |-> resetVolume(storeRecord(self, record), t),
   ret |-> record, threw |-> FALSE]

\* the statements of processTrade that follow the construction of the record
processRecord(self, record, t) ==
  \* no statement of processTrade throws when trade is an object
  [self |-> resetVolume(detectWhale(storeRecord(self, record), record, t), t),
   ret |-> record, threw |-> FALSE]

processTrade(self, trade, t) == processRecord(self, tradeRecordOf(trade, t), t)

\* variant: this.metrics itself is returned
getMetrics_alias(self) ==
  [self |-> self,
   ret |-> [totalVolume24h |-> self.metrics.totalVolume24h,
            whaleCount |-> self.metrics.whaleCount,
            maxWhaleAmount |-> self.metrics.maxWhaleAmount,
            lastWhaleTime |-> self.metrics.lastWhaleTime,
            averageWhaleSize |-> self.metrics.averageWhaleSize,
            currentPrice |-> self.lastPrice,
            hourlyVolume |-> toFixed(self.aggregatedVolume, 4)],
   alias |-> TRUE]

getMetrics(self) ==
  [self |-> self,
   ret |-> [totalVolume24h |-> self.metrics.totalVolume24h,
            whaleCount |-> self.metrics.whaleCount,
            maxWhaleAmount |-> self.metrics.maxWhaleAmount,
            lastWhaleTime |-> self.metrics.lastWhaleTime,
            averageWhaleSize |-> self.metrics.averageWhaleSize,
            currentPrice |-> self.lastPrice,
            hourlyVolume |-> toFixed(self.aggregatedVolume, 4)],
   \* the returned object is a new one, not this.metrics
   alias |-> FALSE]

\* variant: the metrics are not cleared
reset_keepMetrics(self) ==
  [self |-> [self EXCEPT !.tradeHistory = <<>>, !.aggregatedVolume = Num(0)],
   ret |-> Null]

\* variant: lastPrice is cleared too
reset_clearPrice(self) ==
  [self |-> [self EXCEPT !.metrics = InitialMetrics,
                         !.tradeHistory = <<>>,
                         !.aggregatedVolume = Num(0),
                         !.lastPrice = Num(0)],
   ret |-> Null]

reset(self) ==
  [self |-> [self EXCEPT !.metrics = InitialMetrics,
                         !.tradeHistory = <<>>,
                         !.aggregatedVolume = Num(0)],
   ret |-> Null]

(***************************************************************************)
(* getChartData: one-minute buckets over the trades of the last hour.      *)
(***************************************************************************)
bucketTimeOf(trade) == (trade.timestamp \div BUCKET_MS) * BUCKET_MS
\* variant: no window filter
inWindow_always(trade, t) == TRUE

inWindow(trade, t) == trade.timestamp >= t - ONE_HOUR_MS

\* index of the bucket with this key in the Map (0 when absent)
bucketIndex(buckets, key) ==
  IF \E i \in 1..Len(buckets) : buckets[i].timestamp = key
  THEN CHOOSE i \in 1..Len(buckets) : buckets[i].timestamp = key
  ELSE 0

\* the body of the forEach callback for one trade
\* if (!buckets.has(bucketTime)) buckets.set(bucketTime, {...})
ensureBucket(buckets, trade, key) ==
  IF bucketIndex(buckets, key) = 0
  THEN Append(buckets, [price |-> trade.price, totalVolume |-> Num(0),
                        count |-> 0, timestamp |-> key])
  ELSE buckets

\* variant: the volume is overwritten instead of accumulated
updateBucket_overwrite(buckets, i, trade) ==
  [buckets EXCEPT ![i] = [price |-> trade.price,
                          totalVolume |-> trade.quantity,
                          count |-> buckets[i].count + 1,
                          timestamp |-> buckets[i].timestamp]]

\* the updates of the bucket at index i
updateBucket(buckets, i, trade) ==
  [buckets EXCEPT ![i] = [price |-> trade.price,
                          totalVolume |-> Add(buckets[i].totalVolume, trade.quantity),
                          count |-> buckets[i].count + 1,
                          timestamp |-> buckets[i].timestamp]]

updateBucketOf(buckets, trade, key) == updateBucket(buckets, bucketIndex(buckets, key), trade)

addToBuckets(buckets, trade, t) ==
  IF ~inWindow(trade, t) THEN buckets
  ELSE updateBucketOf(ensureBucket(buckets, trade, bucketTimeOf(trade)), trade, bucketTimeOf(trade))

RECURSIVE bucketsOf(_, _, _)
bucketsOf(history, n, t) ==
  IF n = 0 THEN <<>> ELSE addToBuckets(bucketsOf(history, n - 1, t), history[n], t)

\* insert b into a sequence sorted ascending by timestamp, after its equals
RECURSIVE insertSorted(_, _)
insertSorted(sorted, b) ==
  IF sorted = <<>> THEN <<b>>
  ELSE IF b.timestamp < Head(sorted).timestamp THEN <<b>> \o sorted
  ELSE <<Head(sorted)>> \o insertSorted(Tail(sorted), b)

\* Array.prototype.sort((a, b) => a.timestamp - b.timestamp), stable
RECURSIVE sortBuckets(_, _)
sortBuckets(buckets, n) ==
  IF n = 0 THEN <<>> ELSE insertSorted(sortBuckets(buckets, n - 1), buckets[n])

EmptyChart == [labels |-> <<>>, prices |-> <<>>, volumes |-> <<>>, timestamps |-> <<>>]

\* variant: the buckets stay in insertion order
sortedBucketsOf_unsorted(buckets) == buckets

\* Array.from(buckets.values()).sort(...)
sortedBucketsOf(buckets) == sortBuckets(buckets, Len(buckets))

\* the four parallel arrays mapped from the sorted buckets
chartOf(sortedBuckets) ==
  [labels |-> [i \in 1..Len(sortedBuckets) |-> toLocaleTimeString(sortedBuckets[i].timestamp)],
   prices |-> [i \in 1..Len(sortedBuckets) |-> toFixed(sortedBuckets[i].price, 2)],
   volumes |-> [i \in 1..Len(sortedBuckets) |-> toFixed(sortedBuckets[i].totalVolume, 4)],
   timestamps |-> [i \in 1..Len(sortedBuckets) |-> sortedBuckets[i].timestamp]]

\* variant: the call drains the history it read
getChartData_drain(self, t) ==
  [self |-> [self EXCEPT !.tradeHistory = <<>>],
   ret |-> IF Len(self.tradeHistory) = 0 THEN EmptyChart
           ELSE chartOf(sortedBucketsOf(bucketsOf(self.tradeHistory, Len(self.tradeHistory), t)))]

getChartData(self, t) ==
  [self |-> self,
   ret |-> IF Len(self.tradeHistory) = 0 THEN EmptyChart
           ELSE chartOf(sortedBucketsOf(bucketsOf(self.tradeHistory, Len(self.tradeHistory), t)))]

(***************************************************************************)
(* Fan-out transport (src/backend/socket.js): the records handed to        *)
(* io.emit.                                                                *)
(***************************************************************************)
CRITICAL_THRESHOLD == 1000000

broadcastTradeUpdate(tradeData) ==
  [event |-> "trade_update",
   payload |-> [price |-> toFixed(tradeData.price, 2),
                quantity |-> toFixed(tradeData.quantity, 6),
                tradeValue |-> toFixed(tradeData.tradeValue, 2),
                timestamp |-> toISOString(tradeData.timestamp),
                isWhale |-> tradeData.isWhale]]

\* variant: the severity uses >= instead of >
broadcastWhaleAlert_ge(whaleData) ==
  [event |-> "whale_alert",
   payload |-> [price |-> toFixed(whaleData.price, 2),
                quantity |-> toFixed(whaleData.quantity, 6),
                tradeValue |-> toFixed(whaleData.tradeValue, 2),
                timestamp |-> toISOString(whaleData.timestamp),
                severity |-> IF ~IsNaN(whaleData.tradeValue)
                                /\ whaleData.tradeValue.v >= CRITICAL_THRESHOLD
                             THEN "critical" ELSE "high",
                message |-> <<toFixed(whaleData.quantity, 4), toFixed(whaleData.price, 2)>>]]

broadcastWhaleAlert(whaleData) ==
  [event |-> "whale_alert",
   payload |-> [price |-> toFixed(whaleData.price, 2),
                quantity |-> toFixed(whaleData.quantity, 6),
                tradeValue |-> toFixed(whaleData.tradeValue, 2),
                timestamp |-> toISOString(whaleData.timestamp),
                severity |-> IF Gt(whaleData.tradeValue, Num(CRITICAL_THRESHOLD))
                             THEN "critical" ELSE "high",
                message |-> <<toFixed(whaleData.quantity, 4), toFixed(whaleData.price, 2)>>]]

broadcastMetricsUpdate(m) == [event |-> "metrics_update", payload |-> m]
broadcastChartData(c) == [event |-> "chart_data", payload |-> c]

(***************************************************************************)
(* Feed message handler (src/backend/server.js).  A message is text that   *)
(* is not JSON, the JSON text null, or the JSON text of an object.         *)
(***************************************************************************)
CHART_EVERY == 5

\* JSON.parse(data): throws a SyntaxError on text that is not JSON
JSONparse(data) ==
  [throws |-> data.json = "invalid",
   isNull |-> data.json = "null",
   value |-> IF data.json = "object" THEN data.obj ELSE Null]

\* variant: the whale alert is broadcast before the trade update
broadcastsFor_alertFirst(r, t) ==
  (IF r.ret.isWhale THEN <<broadcastWhaleAlert(r.ret)>> ELSE <<>>)
    \o <<broadcastTradeUpdate(r.ret)>>
    \o (IF Len(r.self.tradeHistory) % CHART_EVERY = 0
        THEN <<broadcastChartData(getChartData(r.self, t).ret),
               broadcastMetricsUpdate(getMetrics(r.self).ret)>>
        ELSE <<>>)

\* the try block of the handler: the instance after it, what it emitted,
\* and whether it threw
\* the broadcasts that follow processTrade, whose result is r
broadcastsFor(r, t) ==
  <<broadcastTradeUpdate(r.ret)>>
    \o (IF r.ret.isWhale THEN <<broadcastWhaleAlert(r.ret)>> ELSE <<>>)
    \o (IF Len(r.self.tradeHistory) % CHART_EVERY = 0
        THEN <<broadcastChartData(getChartData(r.self, t).ret),
               broadcastMetricsUpdate(getMetrics(r.self).ret)>>
        ELSE <<>>)

afterProcessTrade(r, t) == [self |-> r.self, emitted |-> broadcastsFor(r, t), threw |-> FALSE]

afterParse(self, parsed, t) ==
  IF parsed.throws THEN [self |-> self, emitted |-> <<>>, threw |-> TRUE]
  \* processTrade(null) throws a TypeError on trade.p, before any assignment
  ELSE IF parsed.isNull THEN [self |-> self, emitted |-> <<>>, threw |-> TRUE]
  ELSE afterProcessTrade(processTrade(self, parsed.value, t), t)

handlerBody(self, data, t) == afterParse(self, JSONparse(data), t)

\* try { body } catch (error) { console.error(...) }
tryCatch(b) == [self |-> b.self, emitted |-> b.emitted, logged |-> b.threw, uncaught |-> FALSE]

\* variant: no try/catch around the body
noCatch(b) == [self |-> b.self, emitted |-> b.emitted, logged |-> FALSE, uncaught |-> b.threw]

onMessage_noCatch(self, data, t) == noCatch(handlerBody(self, data, t))

\* binanceWS.on('message', ...): try { body } catch (error) { console.error(...) }
onMessage(self, data, t) == tryCatch(handlerBody(self, data, t))

(***************************************************************************)
(* Client sockets (src/backend/socket.js).  A socket is known by its id;   *)
(* what is sent to it is a sequence of [event, payload] records.           *)
(***************************************************************************)
\* the three socket.emit calls of the connection handler
initialEmits(self, t) ==
  <<[event |-> "connection_status",
     payload |-> [status |-> "connected", timestamp |-> toISOString(t)]],
    [event |-> "metrics_update", payload |-> getMetrics(self).ret],
    [event |-> "chart_data", payload |-> getChartData(self, t).ret]>>

\* io.on('connection', ...)
onConnection(self, clients, id, t) ==
  [clients |-> clients \cup {id}, sent |-> initialEmits(self, t)]

\* variant: the id stays in connectedClients
onDisconnect_keep(clients, id) == clients

\* socket.on('disconnect', ...)
onDisconnect(clients, id) == clients \ {id}

\* socket.on('request_chart_update', ...)
onRequestChartUpdate(self, t) ==
  <<[event |-> "chart_data", payload |-> getChartData(self, t).ret]>>

getConnectedClientsCount(clients) == Cardinality(clients)

\* the event names of a sequence of emits
eventsOf(sent) == [i \in 1..Len(sent) |-> sent[i].event]

(***************************************************************************)
(* Periodic callbacks and HTTP routes (src/backend/server.js): what each   *)
(* one reads from the detector.                                            *)
(***************************************************************************)
\* setInterval(..., 10000): the two broadcasts
onChartTimer(self, t) ==
  <<broadcastChartData(getChartData(self, t).ret),
    broadcastMetricsUpdate(getMetrics(self).ret)>>

\* setInterval(..., 30000): the fields of the status line
statusOf(m, clientCount, history, t) ==
  [time |-> toLocaleTimeString(t), clients |-> clientCount, whales |-> m.whaleCount,
   price |-> toFixed(m.currentPrice, 2), trades |-> Len(history)]

onStatusTimer(self, clientCount, t) ==
  statusOf(getMetrics(self).ret, clientCount, self.tradeHistory, t)

Routes == {"/health", "/api/metrics", "/api/chart-data"}

\* the body of the response of app.get(route, ...)
httpGet(self, route, clientCount, t) ==
  IF route = "/health"
  THEN [status |-> "ok", uptime |-> Div(t - StartTime, 1000),
        connectedClients |-> clientCount, metrics |-> getMetrics(self).ret]
  ELSE IF route = "/api/metrics" THEN getMetrics(self).ret
  ELSE getChartData(self, t).ret

(***************************************************************************)
(* Upstream connection (src/backend/server.js).  wsState is "none" while   *)
(* binanceWS is null, else the state of the socket it refers to:           *)
(* "connecting", "open", "closing" (close() was called, the 'close' event  *)
(* is still to come) or "closed".                                          *)
(***************************************************************************)
MAX_RECONNECT_ATTEMPTS == 5

Conn == [reconnectAttempts |-> reconnectAttempts, wsState |-> wsState,
         reconnectTimers |-> reconnectTimers]

SetConn(c) ==
  /\ reconnectAttempts' = c.reconnectAttempts
  /\ wsState' = c.wsState
  /\ reconnectTimers' = c.reconnectTimers

\* binanceWS = new WebSocket(BINANCE_WS_URL, options)
connectToBinance(c) == [c EXCEPT !.wsState = "connecting"]

\* binanceWS.on('open', ...)
onOpen(c) == [c EXCEPT !.reconnectAttempts = 0]

\* variant: the retry test uses <= instead of <
onClose_le(c) ==
  IF c.reconnectAttempts <= MAX_RECONNECT_ATTEMPTS
  THEN [c EXCEPT !.reconnectAttempts = @ + 1, !.reconnectTimers = @ + 1]
  ELSE c

\* binanceWS.on('close', ...)
onClose(c) ==
  IF c.reconnectAttempts < MAX_RECONNECT_ATTEMPTS
  THEN [c EXCEPT !.reconnectAttempts = @ + 1, !.reconnectTimers = @ + 1]
  ELSE c

\* WebSocket.close(): starts closing a socket that is connecting or open
wsClose(state) == IF state \in {"connecting", "open"} THEN "closing" ELSE state

\* process.on('SIGINT', ...): if (binanceWS) binanceWS.close()
onSigint(c) == IF c.wsState # "none" THEN [c EXCEPT !.wsState = wsClose(@)] ELSE c

(***************************************************************************)
(* Technical indicators of the trading UI (src/unnamed/part_000).  Closes  *)
(* are integers; results are exact fractions [num, den] with den > 0, and  *)
(* <<>> is null.                                                           *)
(***************************************************************************)
Frac(n, d) == [num |-> n, den |-> d]
FInt(n) == Frac(n, 1)
FAdd(a, b) == Frac(a.num * b.den + b.num * a.den, a.den * b.den)
FSub(a, b) == Frac(a.num * b.den - b.num * a.den, a.den * b.den)
FMul(a, b) == Frac(a.num * b.num, a.den * b.den)
\* a / b for b > 0
FDiv(a, b) == Frac(a.num * b.den, a.den * b.num)
FEq(a, b) == a.num * b.den = b.num * a.den

\* prices.slice(-period), for 1 <= period <= prices.length
sliceLast(prices, period) == SubSeq(prices, Len(prices) - period + 1, Len(prices))

\* variant: the first period entries
sliceLast_first(prices, period) == SubSeq(prices, 1, period)

\* reduce((a, b) => a + b, 0)
RECURSIVE reduceSum(_, _)
reduceSum(xs, n) == IF n = 0 THEN 0 ELSE reduceSum(xs, n - 1) + xs[n]

sumOf(xs) == reduceSum(xs, Len(xs))

\* variant: the mean is taken over the first period entries
calculateSMA_first(prices, period) ==
  IF Len(prices) < period THEN Null
  ELSE <<Frac(sumOf(sliceLast_first(prices, period)), period)>>

calculateSMA(prices, period) ==
  IF Len(prices) < period THEN Null
  ELSE <<Frac(sumOf(sliceLast(prices, period)), period)>>

\* the loop of calculateEMA from index i (0-based) to the end
RECURSIVE emaLoop(_, _, _, _)
emaLoop(prices, k, ema, i) ==
  IF i >= Len(prices) THEN ema
  ELSE emaLoop(prices, k, FAdd(FMul(FInt(prices[i + 1]), k), FMul(ema, FSub(FInt(1), k))), i + 1)

calculateEMA(prices, period) ==
  IF Len(prices) < period THEN Null
  ELSE <<emaLoop(prices, Frac(2, period + 1),
                 Frac(sumOf(sliceLast(prices, period)), period), period)>>

\* gains and losses over the indices i..prices.length-1 (0-based)
RECURSIVE gainsLosses(_, _)
gainsLosses(prices, i) ==
  IF i >= Len(prices) THEN [gains |-> 0, losses |-> 0]
  ELSE LET diff == prices[i + 1] - prices[i]
           rest == gainsLosses(prices, i + 1)
       IN IF diff > 0 THEN [gains |-> rest.gains + diff, losses |-> rest.losses]
          ELSE [gains |-> rest.gains, losses |-> rest.losses - diff]

\* rs and the value returned, from the average gain and loss
rsiOf(avgGain, avgLoss) ==
  FSub(FInt(100),
       FDiv(FInt(100),
            FAdd(FInt(1), IF avgLoss.num = 0 THEN FInt(100) ELSE FDiv(avgGain, avgLoss))))

rsiFrom(gl, period) == rsiOf(Frac(gl.gains, period), Frac(gl.losses, period))

calculateRSI(prices, period) ==
  IF Len(prices) < period + 1 THEN FInt(50)
  ELSE rsiFrom(gainsLosses(prices, Len(prices) - period), period)

(***************************************************************************)
(* Candles of the trading UI (src/unnamed/part_000).  The Map of buckets   *)
(* is a sequence of [key, candle] entries in insertion order.              *)
(***************************************************************************)
MathMin(a, b) == IF a.nan \/ b.nan THEN NaN ELSE IF a.v <= b.v THEN a ELSE b

\* parseFloat of the decimal string toFixed produced
parseFloatFixed(f) == f.fixed
\* new Date(isoString).getTime()
getTime(isoString) == isoString.iso

\* the trade the 'trade_update' listener builds from the payload
uiTradeOf(tradeData) ==
  [timestamp |-> getTime(tradeData.timestamp),
   price |-> parseFloatFixed(tradeData.price),
   quantity |-> parseFloatFixed(tradeData.quantity),
   tradeValue |-> parseFloatFixed(tradeData.tradeValue),
   isWhale |-> tradeData.isWhale]

candleKeyIndex(buckets, key) ==
  IF \E i \in 1..Len(buckets) : buckets[i].key = key
  THEN CHOOSE i \in 1..Len(buckets) : buckets[i].key = key
  ELSE 0

newCandle(trade, key) ==
  [key |-> key,
   candle |-> [time |-> key \div 1000, open |-> trade.price, high |-> trade.price,
               low |-> trade.price, close |-> trade.price, volume |-> trade.quantity]]

\* variant: the close keeps the first price of the bucket
updateCandle_keepClose(entry, trade) ==
  [key |-> entry.key,
   candle |-> [time |-> entry.candle.time,
               open |-> entry.candle.open,
               high |-> MathMax(entry.candle.high, trade.price),
               low |-> MathMin(entry.candle.low, trade.price),
               close |-> entry.candle.close,
               volume |-> Add(entry.candle.volume, trade.quantity)]]

\* the else branch: the candle of the bucket absorbs the trade
updateCandle(entry, trade) ==
  [key |-> entry.key,
   candle |-> [time |-> entry.candle.time,
               open |-> entry.candle.open,
               high |-> MathMax(entry.candle.high, trade.price),
               low |-> MathMin(entry.candle.low, trade.price),
               close |-> trade.price,
               volume |-> Add(entry.candle.volume, trade.quantity)]]

updateCandleAt(buckets, i, trade) == [buckets EXCEPT ![i] = updateCandle(buckets[i], trade)]

\* the body of the forEach callback of buildCandleData, for the bucket key
addToCandlesAt(buckets, trade, key) ==
  IF candleKeyIndex(buckets, key) = 0 THEN Append(buckets, newCandle(trade, key))
  ELSE updateCandleAt(buckets, candleKeyIndex(buckets, key), trade)

addToCandles(buckets, trade, intervalMs) ==
  addToCandlesAt(buckets, trade, (trade.timestamp \div intervalMs) * intervalMs)

RECURSIVE candleBucketsOf(_, _, _)
candleBucketsOf(trades, n, intervalMs) ==
  IF n = 0 THEN <<>>
  ELSE addToCandles(candleBucketsOf(trades, n - 1, intervalMs), trades[n], intervalMs)

RECURSIVE insertCandle(_, _)
insertCandle(sorted, c) ==
  IF sorted = <<>> THEN <<c>>
  ELSE IF c.time < Head(sorted).time THEN <<c>> \o sorted
  ELSE <<Head(sorted)>> \o insertCandle(Tail(sorted), c)

\* Array.from(buckets.values()).sort((a, b) => a.time - b.time)
RECURSIVE sortCandles(_, _)
sortCandles(buckets, n) ==
  IF n = 0 THEN <<>> ELSE insertCandle(sortCandles(buckets, n - 1), buckets[n].candle)

sortedCandlesOf(buckets) == sortCandles(buckets, Len(buckets))

\* candleData and priceHistory assigned from the sorted candles
withCandles(ui, candles) ==
  [ui EXCEPT !.candleData = candles,
             !.priceHistory = [i \in 1..Len(candles) |-> candles[i].close]]

\* buildCandleData(): returns at once when allTrades is empty
buildCandleData(ui) ==
  IF Len(ui.allTrades) = 0 THEN ui
  ELSE withCandles(ui, sortedCandlesOf(candleBucketsOf(ui.allTrades, Len(ui.allTrades),
                                                       ui.currentInterval * 60 * 1000)))

UI == [allTrades |-> allTrades, currentInterval |-> currentInterval,
       candleData |-> candleData, priceHistory |-> priceHistory]

SetUI(ui) ==
  /\ allTrades' = ui.allTrades
  /\ currentInterval' = ui.currentInterval
  /\ candleData' = ui.candleData
  /\ priceHistory' = ui.priceHistory

(***************************************************************************)
(* Inputs.                                                                 *)
(***************************************************************************)
ClosePrices == {10, 20, 30}
ClosesSeqs == UNION {[1..n -> ClosePrices] : n \in 0..MaxCloses}
Periods == 1..MaxPeriod
S1 == <<"1">>
S2 == <<"2">>
S100 == <<"1", "0", "0">>
S500000 == <<"5", "0", "0", "0", "0", "0">>
S600000 == <<"6", "0", "0", "0", "0", "0">>
SAbc == <<"a", "b", "c">>
SNeg5 == <<"-", "5">>

Ordinary == [p |-> S100, q |-> S1, T |-> 110000]
Boundary == [p |-> S500000, q |-> S1]
Whale == [p |-> S600000, q |-> S1, T |-> 70000]
BigWhale == [p |-> S600000, q |-> S2, T |-> 130000]
MissingPrice == [q |-> S1, T |-> 110000]
BadQuantity == [p |-> S100, q |-> SAbc]
Negative == [p |-> SNeg5, q |-> S1, T |-> 0]
ExactMillion == [p |-> S500000, q |-> S2, T |-> 130000]

RawTrades == {Ordinary, Boundary, Whale, BigWhale, MissingPrice, BadQuantity, Negative}
RollTrades == {Ordinary, Whale, BigWhale}
FeedMessages ==
  {[json |-> "invalid"], [json |-> "null"]}
    \cup {[json |-> "object", obj |-> o] : o \in {Ordinary, Whale, BigWhale, ExactMillion, MissingPrice, BadQuantity}}
TickSteps == {61000, ONE_HOUR_MS}
Late == [p |-> S100, q |-> S2, T |-> 310000]
\* trade_update payloads as the server emits them
UIPayloads ==
  {broadcastTradeUpdate(tradeRecordOf(o, StartTime)).payload : o \in {Ordinary, Whale, BigWhale, Late}}
Intervals == {1, 5}
PollMessages == {[json |-> "object", obj |-> o] : o \in {Ordinary, Whale}}
\* clock advances around the 60-second volume reset
VolumeSteps == {VOLUME_RESET_MS, VOLUME_RESET_MS + 1}
VolumeTrades == {Ordinary, Whale, Late}

\* price and quantity both parse to a finite non-negative number
WellFormedTrade(trade) ==
  LET price == parseFloatField(trade, "p")
      quantity == parseFloatField(trade, "q")
  IN ~IsNaN(price) /\ ~IsNaN(quantity) /\ price.v >= 0 /\ quantity.v >= 0

WellFormedMessage(data) == data.json = "object" /\ WellFormedTrade(data.obj)

(***************************************************************************)
(* Initial state and actions.                                              *)
(***************************************************************************)
InitState ==
  /\ tradeHistory = <<>>
  /\ lastPrice = Num(0)
  /\ aggregatedVolume = Num(0)
  /\ lastVolumeResetTime = StartTime
  /\ metrics = InitialMetrics
  /\ now = StartTime
  /\ ticks = 0
  /\ calls = 0
  /\ processed = <<>>
  /\ outbox = <<>>
  /\ crashed = FALSE
  /\ msgs = 0
  /\ sawMalformed = FALSE
  /\ emitLog = <<>>
  /\ allTrades = <<>>
  /\ currentInterval = 1
  /\ candleData = <<>>
  /\ priceHistory = <<>>
  /\ reconnectAttempts = 0
  /\ wsState = "none"
  /\ reconnectTimers = 0
  /\ connects = 0
  /\ closesInRow = 0
  /\ shutdown = "running"
  /\ connectedClients = {}
  /\ sockets = 0
  /\ gone = {}
  /\ inbox = <<>>

Init == InitState /\ ret = [op |-> "new"]

\* the indicators are about to be called on a sequence of closes
IndicatorInit ==
  /\ InitState
  /\ \E prices \in ClosesSeqs : \E period \in Periods :
       ret = [op |-> "closes", prices |-> prices, period |-> period]

\* whaleDetector.processTrade(trade)
ProcessTradeReturns(trade, r) ==
  /\ SetSelf(r.self)
  /\ ret' = [op |-> "processTrade", arg |-> trade, val |-> r.ret, threw |-> r.threw]
  /\ processed' = Append(processed, r.ret)

ProcessTrade(trade) ==
  /\ ~crashed
  /\ ProcessTradeReturns(trade, processTrade(Self, trade, now))
  /\ calls' = calls + 1
  /\ UNCHANGED <<now, ticks, outbox, crashed, msgs, sawMalformed, emitLog, uiVars, connVars, cliVars>>

\* whaleDetector.reset()
Reset ==
  /\ ~crashed
  /\ ret.op # "reset"
  /\ SetSelf(reset(Self).self)
  /\ ret' = [op |-> "reset"]
  /\ processed' = <<>>
  /\ UNCHANGED <<now, ticks, calls, outbox, crashed, msgs, sawMalformed, emitLog, uiVars, connVars, cliVars>>

\* whaleDetector.getMetrics()
GetMetricsReturns(r) ==
  /\ SetSelf(r.self)
  /\ ret' = [op |-> "getMetrics", val |-> r.ret, alias |-> r.alias]

GetMetrics ==
  /\ ~crashed
  /\ GetMetricsReturns(getMetrics(Self))
  /\ UNCHANGED <<now, ticks, calls, processed, outbox, crashed, msgs, sawMalformed, emitLog, uiVars, connVars, cliVars>>

\* the caller assigns to a field of the snapshot getMetrics returned
ModifySnapshot ==
  /\ ~crashed
  /\ ret.op = "getMetrics"
  /\ ret.val.whaleCount # -1
  /\ ret' = [ret EXCEPT !.val.whaleCount = -1]
  /\ metrics' = IF ret.alias THEN [metrics EXCEPT !.whaleCount = -1] ELSE metrics
  /\ UNCHANGED <<tradeHistory, lastPrice, aggregatedVolume, lastVolumeResetTime,
                 now, ticks, calls, processed, outbox, crashed, msgs, sawMalformed, emitLog, uiVars, connVars, cliVars>>

\* whaleDetector.getChartData()
GetChartDataReturns(r) ==
  /\ SetSelf(r.self)
  /\ ret' = [op |-> "getChartData", val |-> r.ret, at |-> now]

GetChartData ==
  /\ ~crashed
  /\ GetChartDataReturns(getChartData(Self, now))
  /\ UNCHANGED <<now, ticks, calls, processed, outbox, crashed, msgs, sawMalformed, emitLog, uiVars, connVars, cliVars>>

\* the clock advances
Tick(d) ==
  /\ ~crashed
  /\ ticks < MaxTicks
  /\ now' = now + d
  /\ ticks' = ticks + 1
  /\ UNCHANGED <<detVars, ret, calls, processed, outbox, crashed, msgs, sawMalformed, emitLog, uiVars, connVars, cliVars>>

\* a feed message arrives: the 'message' callback runs
OnMessageReturns(data, r) ==
  /\ SetSelf(r.self)
  /\ outbox' = r.emitted
  /\ emitLog' = emitLog \o r.emitted
  /\ crashed' = r.uncaught
  /\ ret' = [op |-> "onMessage", arg |-> data, logged |-> r.logged]
  /\ processed' = IF Len(r.emitted) > 0
                   THEN Append(processed, tradeRecordOf(data.obj, now))
                   ELSE processed

OnMessage(data) ==
  /\ ~crashed
  /\ shutdown # "exited"
  /\ wsState = "open"
  /\ OnMessageReturns(data, onMessage(Self, data, now))
  /\ msgs' = msgs + 1
  /\ sawMalformed' = (sawMalformed \/ ~WellFormedMessage(data))
  /\ UNCHANGED <<now, ticks, calls, uiVars, connVars, cliVars>>

\* server.listen callback: the first connectToBinance()
Listening ==
  /\ shutdown = "running"
  /\ wsState = "none"
  /\ SetConn(connectToBinance(Conn))
  /\ connects' = connects + 1
  /\ ret' = [op |-> "listening"]
  /\ UNCHANGED <<detVars, now, ticks, calls, processed, srvVars, uiVars, closesInRow, shutdown, cliVars>>

\* the 'open' event of binanceWS
OnOpen ==
  /\ shutdown # "exited"
  /\ wsState = "connecting"
  /\ SetConn(onOpen([Conn EXCEPT !.wsState = "open"]))
  /\ closesInRow' = 0
  /\ ret' = [op |-> "onOpen"]
  /\ UNCHANGED <<detVars, now, ticks, calls, processed, srvVars, uiVars, connects, shutdown, cliVars>>

\* the 'close' event of binanceWS: the peer closed, the connection failed,
\* or close() was called
OnClose ==
  /\ shutdown # "exited"
  /\ wsState \in {"connecting", "open", "closing"}
  /\ SetConn(onClose([Conn EXCEPT !.wsState = "closed"]))
  /\ closesInRow' = closesInRow + 1
  /\ ret' = [op |-> "onClose"]
  /\ UNCHANGED <<detVars, now, ticks, calls, processed, srvVars, uiVars, connects, shutdown, cliVars>>

\* a setTimeout(connectToBinance, RECONNECT_DELAY) timer expires
ReconnectTimer ==
  /\ shutdown # "exited"
  /\ reconnectTimers > 0
  /\ SetConn(connectToBinance([Conn EXCEPT !.reconnectTimers = @ - 1]))
  /\ connects' = connects + 1
  /\ ret' = [op |-> "reconnect"]
  /\ UNCHANGED <<detVars, now, ticks, calls, processed, srvVars, uiVars, closesInRow, shutdown, cliVars>>

\* the process receives SIGINT
Sigint ==
  /\ shutdown = "running"
  /\ SetConn(onSigint(Conn))
  /\ shutdown' = "closing"
  /\ ret' = [op |-> "SIGINT"]
  /\ UNCHANGED <<detVars, now, ticks, calls, processed, srvVars, uiVars, connects, closesInRow, cliVars>>

\* the callback of server.close: process.exit(0)
ServerClosed ==
  /\ shutdown = "closing"
  /\ shutdown' = "exited"
  /\ ret' = [op |-> "exit"]
  /\ UNCHANGED <<detVars, now, ticks, calls, processed, srvVars, uiVars,
                 reconnectAttempts, wsState, reconnectTimers, connects, closesInRow, cliVars>>

\* the 10-second interval timer fires
ChartTimer ==
  /\ ~crashed
  /\ shutdown # "exited"
  /\ outbox' = onChartTimer(Self, now)
  /\ ret' = [op |-> "chartTimer", seen |-> tradeHistory]
  /\ UNCHANGED <<detVars, now, ticks, calls, processed, crashed, msgs, sawMalformed, emitLog,
                 uiVars, connVars, cliVars>>

\* the 30-second interval timer fires
StatusTimer ==
  /\ ~crashed
  /\ shutdown # "exited"
  /\ ret' = [op |-> "statusTimer", seen |-> tradeHistory,
             val |-> onStatusTimer(Self, getConnectedClientsCount(connectedClients), now)]
  /\ UNCHANGED <<detVars, now, ticks, calls, processed, srvVars, uiVars, connVars, cliVars>>

\* an HTTP GET request is served
HttpGet(route) ==
  /\ ~crashed
  /\ shutdown # "exited"
  /\ ret' = [op |-> "httpGet", route |-> route, seen |-> tradeHistory,
             val |-> httpGet(Self, route, getConnectedClientsCount(connectedClients), now)]
  /\ UNCHANGED <<detVars, now, ticks, calls, processed, srvVars, uiVars, connVars, cliVars>>

\* a client connects: socket.io accepts a socket with a new id
ClientConnectReturns(id, r) ==
  /\ connectedClients' = r.clients
  /\ inbox' = Append(inbox, eventsOf(r.sent))
  /\ ret' = [op |-> "connection", id |-> id, seen |-> tradeHistory, sent |-> r.sent]

ClientConnect ==
  /\ ~crashed
  /\ shutdown # "exited"
  /\ ClientConnectReturns(sockets + 1, onConnection(Self, connectedClients, sockets + 1, now))
  /\ sockets' = sockets + 1
  /\ UNCHANGED <<detVars, now, ticks, calls, processed, srvVars, uiVars, connVars, gone>>

\* the 'disconnect' event of a connected socket
ClientDisconnect(id) ==
  /\ ~crashed
  /\ shutdown # "exited"
  /\ id \in 1..sockets
  /\ id \notin gone
  /\ connectedClients' = onDisconnect(connectedClients, id)
  /\ gone' = gone \cup {id}
  /\ ret' = [op |-> "disconnect", id |-> id]
  /\ UNCHANGED <<detVars, now, ticks, calls, processed, srvVars, uiVars, connVars, sockets, inbox>>

\* a connected socket sends 'request_chart_update'
RequestChartUpdateReturns(id, sent) ==
  /\ inbox' = [inbox EXCEPT ![id] = @ \o eventsOf(sent)]
  /\ ret' = [op |-> "requestChartUpdate", id |-> id, seen |-> tradeHistory, sent |-> sent]

RequestChartUpdate(id) ==
  /\ ~crashed
  /\ shutdown # "exited"
  /\ id \in 1..sockets
  /\ id \notin gone
  /\ RequestChartUpdateReturns(id, onRequestChartUpdate(Self, now))
  /\ UNCHANGED <<detVars, now, ticks, calls, processed, srvVars, uiVars, connVars,
                 connectedClients, sockets, gone>>

\* socket.on('trade_update', ...) of the trading UI
OnTradeUpdate(tradeData) ==
  /\ Len(allTrades) < MaxUITrades
  /\ SetUI(buildCandleData([UI EXCEPT !.allTrades = Append(allTrades, uiTradeOf(tradeData))]))
  /\ ret' = [op |-> "onTradeUpdate"]
  /\ UNCHANGED <<detVars, now, ticks, calls, processed, outbox, crashed, msgs, sawMalformed, emitLog, connVars, cliVars>>

\* click on a .time-btn of the trading UI
OnIntervalClick(minutes) ==
  /\ SetUI(buildCandleData([UI EXCEPT !.currentInterval = minutes]))
  /\ ret' = [op |-> "onIntervalClick"]
  /\ UNCHANGED <<detVars, now, ticks, calls, processed, outbox, crashed, msgs, sawMalformed, emitLog, connVars, cliVars>>

\* calculateSMA(prices, period) on the closes drawn
CalculateSMA ==
  /\ ret.op = "closes"
  /\ ret' = [op |-> "calculateSMA", prices |-> ret.prices, period |-> ret.period,
             val |-> calculateSMA(ret.prices, ret.period)]
  /\ UNCHANGED <<detVars, now, ticks, calls, processed, outbox, crashed, msgs, sawMalformed, emitLog, uiVars, connVars, cliVars>>

\* calculateEMA(prices, period) on the closes drawn
CalculateEMA ==
  /\ ret.op = "closes"
  /\ ret' = [op |-> "calculateEMA", prices |-> ret.prices, period |-> ret.period,
             val |-> calculateEMA(ret.prices, ret.period)]
  /\ UNCHANGED <<detVars, now, ticks, calls, processed, outbox, crashed, msgs, sawMalformed, emitLog, uiVars, connVars, cliVars>>

\* calculateRSI(prices, period) on the closes drawn
CalculateRSI ==
  /\ ret.op = "closes"
  /\ ret' = [op |-> "calculateRSI", prices |-> ret.prices, period |-> ret.period,
             val |-> calculateRSI(ret.prices, ret.period)]
  /\ UNCHANGED <<detVars, now, ticks, calls, processed, outbox, crashed, msgs, sawMalformed, emitLog, uiVars, connVars, cliVars>>

(***************************************************************************)
(* Specifications.                                                         *)
(***************************************************************************)
\* the detector under calls with varied raw trades
Next ==
  \/ \E trade \in RawTrades : calls < MaxTrades /\ ProcessTrade(trade)
  \/ Reset
  \/ GetMetrics
  \/ ModifySnapshot
  \/ GetChartData
  \/ \E d \in TickSteps : Tick(d)

Spec == Init /\ [][Next]_vars

\* the detector driven past the capacity of its history
RollNext ==
  \/ \E trade \in RollTrades : calls < MAX_HISTORY + RollExtra /\ ProcessTrade(trade)
  \/ Reset
  \/ GetMetrics
  \/ GetChartData

RollSpec == Init /\ [][RollNext]_vars

\* the server fed by the exchange
ServerNext ==
  \/ Listening
  \/ OnOpen
  \/ \E data \in FeedMessages : msgs < MaxMsgs /\ OnMessage(data)
  \/ \E d \in TickSteps : Tick(d)

ServerSpec == Init /\ [][ServerNext]_vars

\* the detector under clock advances around the volume reset
VolumeNext ==
  \/ \E trade \in VolumeTrades : calls < MaxTrades /\ ProcessTrade(trade)
  \/ Reset
  \/ \E d \in VolumeSteps : Tick(d)

VolumeSpec == Init /\ [][VolumeNext]_vars

\* the server polled by its timers and by HTTP clients while the feed runs
\* past the capacity of the history
PollNext ==
  \/ Listening
  \/ OnOpen
  \/ \E data \in PollMessages : msgs < MAX_HISTORY + PollExtra /\ OnMessage(data)
  \/ ChartTimer
  \/ StatusTimer
  \/ \E route \in Routes : HttpGet(route)
  \/ sockets < MaxSockets /\ ClientConnect
  \/ \E id \in 1..sockets : Len(inbox[id]) < 3 + MaxRequests /\ RequestChartUpdate(id)

PollSpec == Init /\ [][PollNext]_vars

\* clients connecting, asking and disconnecting while the server is polled
ClientNext ==
  \/ Listening
  \/ OnOpen
  \/ \E data \in PollMessages : msgs < MaxClientMsgs /\ OnMessage(data)
  \/ sockets < MaxSockets /\ ClientConnect
  \/ \E id \in 1..sockets : ClientDisconnect(id)
  \/ \E id \in 1..sockets : Len(inbox[id]) < 3 + MaxRequests /\ RequestChartUpdate(id)
  \/ StatusTimer
  \/ \E route \in Routes : HttpGet(route)

ClientSpec == Init /\ [][ClientNext]_vars

\* the upstream connection through failures, retries and shutdown
ConnNext ==
  \/ Listening
  \/ OnOpen
  \/ OnClose
  \/ connects < MaxConnects /\ ReconnectTimer
  \/ Sigint
  \/ ServerClosed

ConnSpec == Init /\ [][ConnNext]_vars

\* the indicators applied to sequences of closes
IndicatorNext ==
  \/ CalculateSMA
  \/ CalculateEMA
  \/ CalculateRSI

IndicatorSpec == IndicatorInit /\ [][IndicatorNext]_vars

\* the trading UI receiving trade updates
CandleNext ==
  \/ \E tradeData \in UIPayloads : OnTradeUpdate(tradeData)
  \/ \E minutes \in Intervals : OnIntervalClick(minutes)

CandleSpec == Init /\ [][CandleNext]_vars

(***************************************************************************)
(* Properties.                                                             *)
(***************************************************************************)
Last(seq) == seq[Len(seq)]
Min(a, b) == IF a <= b THEN a ELSE b

\* the notional value of a record is above the whale threshold
IsWhaleRecord(r) ==
  ~r.price.nan /\ ~r.quantity.nan /\ r.price.v * r.quantity.v > 500000

\* C1: between calls, tradeHistory never holds more than MAX_HISTORY trades.
C1_HistoryBounded == Len(tradeHistory) <= MAX_HISTORY

C1_Witness == Len(tradeHistory) = MAX_HISTORY /\ Len(processed) > MAX_HISTORY

\* C2: tradeHistory is the last min(n, MAX_HISTORY) of the n trades processed
\* since construction or the last reset, in arrival order.
C2_StrictFIFO ==
  LET n == Len(processed)
      k == Min(n, MAX_HISTORY)
  IN tradeHistory = SubSeq(processed, n - k + 1, n)

\* after MAX_HISTORY + 1 insertions the second trade is the oldest entry
C2_Witness ==
  /\ Len(processed) = MAX_HISTORY + 1
  /\ processed[1] # processed[2]
  /\ tradeHistory[1] = processed[2]
  /\ \A i \in 1..Len(tradeHistory) : tradeHistory[i] # processed[1]

\* C3: the record processTrade returns has isWhale exactly when
\* price * quantity > 500000 (equal is not a whale), and tradeValue = price * quantity.
C3_WhaleFlagExact ==
  ret.op = "processTrade" =>
    LET r == ret.val
        known == ~r.price.nan /\ ~r.quantity.nan
    IN /\ r.isWhale <=> (known /\ r.price.v * r.quantity.v > 500000)
       /\ r.tradeValue.nan <=> ~known
       /\ known => r.tradeValue.v = r.price.v * r.quantity.v

C3_Witness ==
  /\ ret.op = "processTrade"
  /\ ret.val.tradeValue = Num(500000)
  /\ ~ret.val.isWhale

\* C4: whaleCount is the number of whale trades processed since construction
\* or the last reset, maxWhaleAmount the largest notional value among them
\* (0 without any).
C4_WhaleMetrics ==
  LET whales == {i \in 1..Len(processed) : IsWhaleRecord(processed[i])}
  IN /\ metrics.whaleCount = Cardinality(whales)
     /\ ~metrics.maxWhaleAmount.nan
     /\ whales = {} => metrics.maxWhaleAmount.v = 0
     /\ whales # {} =>
          /\ \E i \in whales :
               metrics.maxWhaleAmount.v = processed[i].price.v * processed[i].quantity.v
          /\ \A i \in whales :
               metrics.maxWhaleAmount.v >= processed[i].price.v * processed[i].quantity.v

\* after trades (100, 1) and (600000, 1): one whale, of 600000
C4_Witness ==
  /\ Len(processed) = 2
  /\ processed[1].price = Num(100) /\ processed[1].quantity = Num(1)
  /\ processed[2].price = Num(600000) /\ processed[2].quantity = Num(1)
  /\ metrics.whaleCount = 1
  /\ metrics.maxWhaleAmount = Num(600000)

\* C5: a processTrade call on a trade that is not a whale leaves whaleCount,
\* maxWhaleAmount, lastWhaleTime and averageWhaleSize unchanged.
C5_NonWhaleKeepsMetrics ==
  [][(calls' = calls + 1 /\ ~IsWhaleRecord(ret'.val)) =>
       /\ metrics'.whaleCount = metrics.whaleCount
       /\ metrics'.maxWhaleAmount = metrics.maxWhaleAmount
       /\ metrics'.lastWhaleTime = metrics.lastWhaleTime
       /\ metrics'.averageWhaleSize = metrics.averageWhaleSize]_vars

\* an ordinary trade was processed after a whale
C5_Witness ==
  /\ ret.op = "processTrade"
  /\ ~IsWhaleRecord(ret.val)
  /\ metrics.whaleCount = 1
  /\ Len(processed) >= 2

\* C6: processTrade on a raw record whose price or quantity is missing or is
\* not a finite non-negative number fails with MalformedInputError: it
\* returns no trade record and appends nothing to tradeHistory.
C6_MalformedRejected ==
  (ret.op = "processTrade" /\ ~WellFormedTrade(ret.arg)) =>
    /\ ret.threw
    /\ \A i \in 1..Len(tradeHistory) : tradeHistory[i] # ret.val

\* C7: no feed message makes an error escape the message handler, and a
\* well-formed trade message, also after malformed ones, is processed by
\* processTrade and broadcast as a trade_update.
C7_MalformedNeverHalts ==
  /\ ~crashed
  /\ (ret.op = "onMessage" /\ WellFormedMessage(ret.arg)) =>
       /\ ~ret.logged
       /\ tradeHistory # <<>>
       /\ Last(tradeHistory).price = parseFloat(ret.arg.obj.p)
       /\ Last(tradeHistory).quantity = parseFloat(ret.arg.obj.q)
       /\ outbox # <<>>
       /\ outbox[1].event = "trade_update"
       /\ outbox[1].payload.price = toFixed(parseFloat(ret.arg.obj.p), 2)
       /\ outbox[1].payload.quantity = toFixed(parseFloat(ret.arg.obj.q), 6)
  /\ (ret.op = "onMessage" /\ ret.arg.json # "object") => ret.logged

\* a well-formed trade is broadcast after a malformed message was delivered
C7_Witness ==
  /\ sawMalformed
  /\ ret.op = "onMessage"
  /\ WellFormedMessage(ret.arg)
  /\ outbox # <<>>
  /\ outbox[1].event = "trade_update"
  /\ ~crashed

\* C8: after reset(), tradeHistory is empty and getMetrics() reports
\* whaleCount 0, maxWhaleAmount 0, lastWhaleTime null and averageWhaleSize 0.
C8_ResetClears ==
  ret.op = "reset" =>
    LET m == getMetrics(Self).ret
    IN /\ tradeHistory = <<>>
       /\ m.whaleCount = 0
       /\ m.maxWhaleAmount = Num(0)
       /\ m.lastWhaleTime = Null
       /\ m.averageWhaleSize.num = Num(0)
       /\ metrics = InitialMetrics

\* reset() was called after a whale of price 600000 had been processed
C8_Witness ==
  /\ ret.op = "reset"
  /\ lastPrice = Num(600000)
  /\ metrics.whaleCount = 0

\* C9: getMetrics changes no field of the detector, and assigning to a field
\* of the snapshot it returned changes none either.
C9_GetMetricsPure ==
  [][ret'.op = "getMetrics" =>
       /\ tradeHistory' = tradeHistory
       /\ metrics' = metrics
       /\ lastPrice' = lastPrice
       /\ aggregatedVolume' = aggregatedVolume
       /\ lastVolumeResetTime' = lastVolumeResetTime]_vars

\* the snapshot was modified and the detector still counts its whale
C9_Witness ==
  /\ ret.op = "getMetrics"
  /\ ret.val.whaleCount = -1
  /\ metrics.whaleCount = 1
  /\ getMetrics(Self).ret.whaleCount = 1

\* C10: getChartData on an empty tradeHistory, or on one whose trades are all
\* older than one hour before the call, returns four empty sequences.
C10_EmptyChart ==
  (/\ ret.op = "getChartData"
   /\ \A i \in 1..Len(tradeHistory) : tradeHistory[i].timestamp < ret.at - 3600000) =>
    /\ ret.val.labels = <<>>
    /\ ret.val.prices = <<>>
    /\ ret.val.volumes = <<>>
    /\ ret.val.timestamps = <<>>

\* the history holds trades, all of them older than the window
C10_Witness ==
  /\ ret.op = "getChartData"
  /\ tradeHistory # <<>>
  /\ \A i \in 1..Len(tradeHistory) : tradeHistory[i].timestamp < ret.at - 3600000
  /\ ret.val.timestamps = <<>>

(***************************************************************************)
(* Chart properties.  A getChartData result is judged against the history  *)
(* it was computed from: ret.at is the clock at the call, and every action  *)
(* that changes tradeHistory replaces ret.                                  *)
(***************************************************************************)
\* the trades of the history whose timestamp floors into the bucket starting at b
InBucket(b) == {i \in 1..Len(tradeHistory) : (tradeHistory[i].timestamp \div 60000) * 60000 = b}

\* those of them inside the one-hour window of the call
InBucketInWindow(b) == {i \in InBucket(b) : tradeHistory[i].timestamp >= ret.at - 3600000}

\* the sum of the quantities of the trades at the indices idx (NaN once one is NaN)
RECURSIVE SumQuantity(_)
SumQuantity(idx) ==
  IF idx = {} THEN Num(0)
  ELSE LET i == CHOOSE j \in idx : TRUE
           rest == SumQuantity(idx \ {i})
           q == tradeHistory[i].quantity
       IN IF q.nan \/ rest.nan THEN NaN ELSE Num(q.v + rest.v)

ChartCalled == ret.op = "getChartData"

\* C11 as stated: the volume of every emitted bucket is the sum of the
\* quantities of all trades of tradeHistory whose timestamp floors into it.
C11_VolumeAllTrades ==
  ChartCalled =>
    \A i \in 1..Len(ret.val.timestamps) :
      ret.val.volumes[i] = toFixed(SumQuantity(InBucket(ret.val.timestamps[i])), 4)

\* C11 amended: the volume of every emitted bucket is the sum of the
\* quantities of the trades of tradeHistory inside the one-hour window
\* (timestamp >= now - 3600000) whose timestamp floors into it.
C11_VolumeInWindow ==
  ChartCalled =>
    \A i \in 1..Len(ret.val.timestamps) :
      ret.val.volumes[i] = toFixed(SumQuantity(InBucketInWindow(ret.val.timestamps[i])), 4)

\* a bucket with two trades in the window and one that floors into it outside
C11_Witness ==
  /\ ChartCalled
  /\ \E i \in 1..Len(ret.val.timestamps) :
       /\ Cardinality(InBucketInWindow(ret.val.timestamps[i])) >= 2
       /\ InBucket(ret.val.timestamps[i]) # InBucketInWindow(ret.val.timestamps[i])

\* C12: the price of every emitted bucket is the price of the trade with the
\* greatest timestamp among the trades of the bucket, whatever the arrival order.
C12_PriceChronologicallyLast ==
  ChartCalled =>
    \A i \in 1..Len(ret.val.timestamps) :
      LET members == InBucketInWindow(ret.val.timestamps[i])
      IN \E j \in members :
           /\ \A k \in members : tradeHistory[k].timestamp <= tradeHistory[j].timestamp
           /\ ret.val.prices[i] = toFixed(tradeHistory[j].price, 2)

\* C13: labels, prices, volumes and timestamps have the same length; the
\* timestamps are strictly ascending multiples of 60000, one per non-empty
\* bucket; index i of each sequence describes the bucket timestamps[i].
C13_ParallelSequences ==
  ChartCalled =>
    LET c == ret.val
        n == Len(c.timestamps)
        inWin == {j \in 1..Len(tradeHistory) : tradeHistory[j].timestamp >= ret.at - 3600000}
    IN /\ Len(c.labels) = n /\ Len(c.prices) = n /\ Len(c.volumes) = n
       /\ \A i \in 1..n : c.timestamps[i] % 60000 = 0
       /\ \A i \in 1..n : \A j \in 1..n : i < j => c.timestamps[i] < c.timestamps[j]
       /\ {c.timestamps[i] : i \in 1..n}
            = {(tradeHistory[j].timestamp \div 60000) * 60000 : j \in inWin}
       /\ \A i \in 1..n :
            /\ c.labels[i] = toLocaleTimeString(c.timestamps[i])
            /\ c.volumes[i] = toFixed(SumQuantity(InBucketInWindow(c.timestamps[i])), 4)
            /\ \E j \in InBucketInWindow(c.timestamps[i]) :
                 c.prices[i] = toFixed(tradeHistory[j].price, 2)

\* a later bucket arrived before an earlier one
C13_Witness ==
  /\ ChartCalled
  /\ Len(ret.val.timestamps) >= 2
  /\ \E j \in 1..Len(tradeHistory) : \E k \in 1..Len(tradeHistory) :
       /\ j < k
       /\ tradeHistory[j].timestamp \div 60000 > tradeHistory[k].timestamp \div 60000
       /\ tradeHistory[k].timestamp >= ret.at - 3600000

\* C14: a getChartData call changes neither tradeHistory nor the metrics, and
\* a second call at the same clock value on the same history returns the
\* same result as the first.
C14_ChartIdempotent ==
  [][(ret'.op = "getChartData" /\ now' = now) =>
       /\ tradeHistory' = tradeHistory
       /\ metrics' = metrics
       /\ (ret.op = "getChartData" /\ ret.at = now) => ret'.val = ret.val]_vars

\* a call returned buckets, and calling again now returns them again
C14_Witness ==
  /\ ChartCalled
  /\ ret.at = now
  /\ Len(ret.val.timestamps) >= 2
  /\ getChartData(Self, now).ret = ret.val
  /\ metrics.whaleCount > 0

\* C19: a whale alert has severity "critical" exactly when the notional
\* value of the trade is above 1000000, and "high" otherwise.
C19_Severity ==
  \A i \in 1..Len(outbox) :
    outbox[i].event = "whale_alert" =>
      LET r == Last(tradeHistory)
      IN /\ outbox[i].payload.tradeValue = toFixed(Num(r.price.v * r.quantity.v), 2)
         /\ outbox[i].payload.severity
              = IF r.price.v * r.quantity.v > 1000000 THEN "critical" ELSE "high"

\* alerts of both severities, one of them at exactly 1000000
C19_Witness ==
  /\ Len(outbox) >= 2
  /\ outbox[2].event = "whale_alert"
  /\ outbox[2].payload.tradeValue = toFixed(Num(1000000), 2)
  /\ outbox[2].payload.severity = "high"
  /\ \E j \in 1..Len(tradeHistory) : tradeHistory[j].tradeValue = Num(1200000)

\* the whale records processed since construction or the last reset
WhaleIndices == {i \in 1..Len(processed) : IsWhaleRecord(processed[i])}

\* C20: with whaleCount > 0, lastWhaleTime is the feed-supplied timestamp of
\* the most recently processed whale trade; without a whale it is null.
C20_LastWhaleTime ==
  /\ WhaleIndices = {} => metrics.lastWhaleTime = Null
  /\ WhaleIndices # {} =>
       LET last == CHOOSE i \in WhaleIndices : \A j \in WhaleIndices : j <= i
       IN metrics.lastWhaleTime = <<toISOString(processed[last].timestamp)>>

(***************************************************************************)
(* Indicator properties.                                                   *)
(***************************************************************************)
\* the sum of xs[a..b]
RECURSIVE SumRange(_, _, _)
SumRange(xs, a, b) == IF a > b THEN 0 ELSE xs[a] + SumRange(xs, a + 1, b)

\* the EMA recurrence applied to xs[i..Len(xs)], from the value num/den,
\* with k = 2 / (period + 1):  ema*(1-k) + x*k = (ema*(period-1) + 2x) / (period+1)
RECURSIVE EmaFrom(_, _, _, _)
EmaFrom(xs, period, ema, i) ==
  IF i > Len(xs) THEN ema
  ELSE EmaFrom(xs, period,
               Frac(ema.num * (period - 1) + 2 * xs[i] * ema.den, ema.den * (period + 1)),
               i + 1)

\* C15: with at least period closes the EMA is seeded with the mean of the
\* first period closes and updated by ema = close*k + ema*(1-k) for each
\* later close; with fewer closes it is absent.
C15_EmaSeededByFirst ==
  ret.op = "calculateEMA" =>
    IF Len(ret.prices) < ret.period THEN ret.val = Null
    ELSE /\ ret.val # Null
         /\ FEq(ret.val[1],
                EmaFrom(ret.prices, ret.period,
                        Frac(SumRange(ret.prices, 1, ret.period), ret.period),
                        ret.period + 1))

\* C16: the SMA is the mean of the last period closes, and null with fewer
\* than period closes.
C16_Sma ==
  ret.op = "calculateSMA" =>
    IF Len(ret.prices) < ret.period THEN ret.val = Null
    ELSE /\ ret.val # Null
         /\ ret.val[1].den > 0
         /\ ret.val[1].num * ret.period
              = ret.val[1].den
                  * SumRange(ret.prices, Len(ret.prices) - ret.period + 1, Len(ret.prices))

\* SMA(3) over <<10, 20, 30>> is 20, and SMA(2) over it is 25
C16_Witness ==
  /\ ret.op = "calculateSMA"
  /\ ret.prices = <<10, 20, 30>>
  /\ ret.period = 2
  /\ FEq(ret.val[1], FInt(25))
  /\ FEq(calculateSMA(<<10, 20, 30>>, 3)[1], FInt(20))
  /\ calculateSMA(<<10, 20>>, 3) = Null

\* the sums of the gains and of the losses over the trailing period deltas
TrailingDeltas(xs, period) == {i \in (Len(xs) - period + 1)..Len(xs) : i >= 2}
RECURSIVE GainSum(_, _)
GainSum(xs, idx) ==
  IF idx = {} THEN 0
  ELSE LET i == CHOOSE j \in idx : TRUE
       IN (IF xs[i] > xs[i - 1] THEN xs[i] - xs[i - 1] ELSE 0) + GainSum(xs, idx \ {i})
RECURSIVE LossSum(_, _)
LossSum(xs, idx) ==
  IF idx = {} THEN 0
  ELSE LET i == CHOOSE j \in idx : TRUE
       IN (IF xs[i] < xs[i - 1] THEN xs[i - 1] - xs[i] ELSE 0) + LossSum(xs, idx \ {i})

\* C17: the oscillator is 50 with fewer than period + 1 closes, exactly 100
\* when none of the trailing period deltas is negative, and otherwise
\* 100 - 100 / (1 + avgGain / avgLoss).
C17_Rsi ==
  ret.op = "calculateRSI" =>
    LET g == GainSum(ret.prices, TrailingDeltas(ret.prices, ret.period))
        l == LossSum(ret.prices, TrailingDeltas(ret.prices, ret.period))
    IN IF Len(ret.prices) < ret.period + 1 THEN FEq(ret.val, FInt(50))
       ELSE IF l = 0 THEN FEq(ret.val, FInt(100))
       \* 100 - 100 / (1 + g/l) = 100 * g / (g + l)
       ELSE FEq(ret.val, Frac(100 * g, g + l))

(***************************************************************************)
(* Candle properties.                                                      *)
(***************************************************************************)
\* start of the interval bucket of a trade of allTrades, in milliseconds
CandleBucket(j) ==
  (allTrades[j].timestamp \div (currentInterval * 60000)) * (currentInterval * 60000)

\* the trades of allTrades in the bucket of the candle c
CandleMembers(c) == {j \in 1..Len(allTrades) : CandleBucket(j) \div 1000 = c.time}

RECURSIVE SumUIQuantity(_)
SumUIQuantity(idx) ==
  IF idx = {} THEN 0
  ELSE LET j == CHOOSE k \in idx : TRUE IN allTrades[j].quantity.v + SumUIQuantity(idx \ {j})

\* C18: candleData holds one candle per non-empty interval bucket, ascending
\* by bucket start; open is the price of the first trade of the bucket in
\* arrival order, close that of the last, high and low the extreme prices,
\* volume the sum of the quantities; so low <= open, close <= high.
C18_Candles ==
  LET n == Len(candleData)
  IN /\ n = Cardinality({CandleBucket(j) : j \in 1..Len(allTrades)})
     /\ \A i \in 1..n : \A k \in 1..n : i < k => candleData[i].time < candleData[k].time
     /\ \A i \in 1..n :
          LET c == candleData[i]
              m == CandleMembers(c)
          IN /\ m # {}
             /\ \E first \in m : (\A j \in m : first <= j) /\ c.open = allTrades[first].price
             /\ \E last \in m : (\A j \in m : j <= last) /\ c.close = allTrades[last].price
             /\ \E j \in m : c.high = allTrades[j].price
             /\ \E j \in m : c.low = allTrades[j].price
             /\ \A j \in m : c.low.v <= allTrades[j].price.v /\ allTrades[j].price.v <= c.high.v
             /\ c.volume.v = SumUIQuantity(m)
             /\ c.low.v <= c.open.v /\ c.open.v <= c.high.v
             /\ c.low.v <= c.close.v /\ c.close.v <= c.high.v

\* a five-minute candle of three trades whose open, close, high and low differ
C18_Witness ==
  /\ currentInterval = 5
  /\ Len(allTrades) = 3
  /\ Len(candleData) = 1
  /\ candleData[1].close # candleData[1].open
  /\ candleData[1].high # candleData[1].close
  /\ candleData[1].low # candleData[1].open
  /\ candleData[1].volume = Num(4)

(***************************************************************************)
(* Short-window volume accumulator.                                        *)
(***************************************************************************)
\* C21: a processTrade call made more than 60000 ms of local time after the
\* last volume reset leaves the accumulator at zero and the reset time at the
\* local time of the call; any other processTrade call adds exactly the
\* trade's quantity and keeps the reset time, whatever the trade's timestamp.
C21_VolumeAccumulator ==
  [][calls' = calls + 1 =>
       IF now - lastVolumeResetTime > 60000
       THEN /\ aggregatedVolume' = Num(0)
            /\ lastVolumeResetTime' = now
       ELSE /\ ~aggregatedVolume'.nan
            /\ aggregatedVolume'.v = aggregatedVolume.v + ret'.val.quantity.v
            /\ lastVolumeResetTime' = lastVolumeResetTime]_vars

\* a trade stamped before the last reset time was processed 60001 ms after
\* it, following another trade: the accumulator was reset
C21_Witness ==
  /\ ret.op = "processTrade"
  /\ Len(processed) >= 2
  /\ now = StartTime + 60001
  /\ ret.val.timestamp < StartTime
  /\ aggregatedVolume = Num(0)
  /\ lastVolumeResetTime = now

CloseSchedules ==
  closesInRow' = closesInRow + 1 =>
    IF reconnectAttempts < 5
    THEN reconnectTimers' = reconnectTimers + 1
    ELSE reconnectTimers' = reconnectTimers

\* reconnectAttempts returns to 0 only in an 'open' event
ResetOnlyOnOpen ==
  (reconnectAttempts' = 0 /\ reconnectAttempts # 0) =>
    (wsState = "connecting" /\ wsState' = "open")

\* C23 as stated: reconnectAttempts stays within 0..MAX_RECONNECT_ATTEMPTS, a
\* close event schedules exactly one reconnect if reconnectAttempts is below
\* the maximum and none otherwise, the counter returns to 0 only on an open,
\* and after MAX_RECONNECT_ATTEMPTS consecutive closes without an open no
\* further connection is attempted.
C23_BoundedRetries ==
  /\ [](reconnectAttempts \in 0..5)
  /\ [][CloseSchedules]_vars
  /\ [][ResetOnlyOnOpen]_vars
  /\ [][closesInRow >= 5 => connects' = connects]_vars

\* C23 amended: the same, with the last connection attempt excluded only
\* after MAX_RECONNECT_ATTEMPTS + 1 consecutive closes without an open (the
\* close of one connection and of each of the retries that follow it).
C23_BoundedRetriesPlusOne ==
  /\ [](reconnectAttempts \in 0..5)
  /\ [][CloseSchedules]_vars
  /\ [][ResetOnlyOnOpen]_vars
  /\ [](closesInRow >= 6 => reconnectTimers = 0 /\ wsState = "closed")
  /\ [][closesInRow >= 6 => connects' = connects]_vars

\* the first connection and its five retries were all closed without an
\* open: nothing is scheduled any more
C23_Witness ==
  /\ closesInRow = 6
  /\ connects = 6
  /\ reconnectAttempts = 5
  /\ reconnectTimers = 0
  /\ wsState = "closed"

(***************************************************************************)
(* Feed handler properties.  outbox holds the io.emit calls of the last    *)
(* callback that broadcast; processed ends with the trade of the last      *)
(* handled message.                                                        *)
(***************************************************************************)
\* the metrics snapshot m reflects a whale of the notional value in payload p
ReflectsWhale(m, p) ==
  /\ m.whaleCount >= 1
  /\ m.whaleCount = Cardinality(WhaleIndices)
  /\ ~m.maxWhaleAmount.nan
  /\ m.maxWhaleAmount.v >= p.tradeValue.fixed.v
  /\ m.lastWhaleTime # Null

\* C24: when a whale_alert has been broadcast for a trade, whaleCount already
\* counts that trade and maxWhaleAmount is at least its notional value: the
\* metrics_update broadcast after it by the same handler, and a getMetrics
\* snapshot taken afterwards, reflect the whale.
C24_MetricsBeforeAlert ==
  \A i \in 1..Len(outbox) :
    outbox[i].event = "whale_alert" =>
      /\ IsWhaleRecord(Last(processed))
      /\ outbox[i].payload.tradeValue.fixed.v
           = Last(processed).price.v * Last(processed).quantity.v
      /\ ReflectsWhale(getMetrics(Self).ret, outbox[i].payload)
      /\ \A j \in (i + 1)..Len(outbox) :
           outbox[j].event = "metrics_update" =>
             ReflectsWhale(outbox[j].payload, outbox[i].payload)

\* the handler broadcast a whale alert and, after it, the metrics
C24_Witness ==
  /\ Len(outbox) = 4
  /\ outbox[2].event = "whale_alert"
  /\ outbox[4].event = "metrics_update"
  /\ outbox[4].payload.whaleCount >= 2
  /\ outbox[4].payload.maxWhaleAmount = Num(600000)

(***************************************************************************)
(* Client socket properties.                                               *)
(***************************************************************************)
\* C29: getConnectedClientsCount() is the number of sockets that connected
\* and have not disconnected, and what a socket is sent starts with
\* connection_status, metrics_update, chart_data, in that order, before the
\* answer to any of its requests.
C29_ClientsAndGreeting ==
  /\ gone \subseteq 1..sockets
  /\ getConnectedClientsCount(connectedClients) = sockets - Cardinality(gone)
  /\ connectedClients = (1..sockets) \ gone
  /\ Len(inbox) = sockets
  /\ \A id \in 1..sockets :
       /\ Len(inbox[id]) >= 3
       /\ SubSeq(inbox[id], 1, 3) = <<"connection_status", "metrics_update", "chart_data">>
       /\ \A k \in 4..Len(inbox[id]) : inbox[id][k] = "chart_data"
  /\ ret.op = "statusTimer" => ret.val.clients = sockets - Cardinality(gone)
  /\ (ret.op = "httpGet" /\ ret.route = "/health") =>
       ret.val.connectedClients = sockets - Cardinality(gone)

\* two sockets connected, the first one disconnected, the second one asked
\* for the chart, and the status line then counted one client
C29_Witness ==
  /\ sockets = 2
  /\ gone = {1}
  /\ Len(inbox[2]) = 4
  /\ ret.op = "statusTimer"
  /\ ret.val.clients = 1

(***************************************************************************)
(* Reader properties.  A reader records in ret.seen the tradeHistory it    *)
(* read.                                                                   *)
(***************************************************************************)
Readers == {"chartTimer", "statusTimer", "httpGet", "connection", "requestChartUpdate"}

\* the history after all the processTrade calls completed so far
WholeHistory ==
  SubSeq(processed, Len(processed) - Min(Len(processed), MAX_HISTORY) + 1, Len(processed))

\* the chart computed from the history after the completed calls
WholeChart == getChartData([Self EXCEPT !.tradeHistory = WholeHistory], now).ret

\* C25: whatever the interleaving of feed messages, the 10-second and
\* 30-second timers, HTTP queries and client socket requests, each reader
\* sees a history of at most MAX_HISTORY entries that is the result of a
\* whole number of completed processTrade calls, and reports from it.
C25_ReadersSeeWholeHistory ==
  ret.op \in Readers =>
    /\ Len(ret.seen) <= MAX_HISTORY
    /\ ret.seen = WholeHistory
    /\ ret.op = "statusTimer" =>
         /\ ret.val.trades = Min(Len(processed), MAX_HISTORY)
         /\ ret.val.whales = Cardinality(WhaleIndices)
    /\ ret.op = "chartTimer" =>
         /\ outbox[1].payload = WholeChart
         /\ outbox[2].payload.whaleCount = Cardinality(WhaleIndices)
    /\ (ret.op = "httpGet" /\ ret.route = "/api/chart-data") => ret.val = WholeChart
    /\ (ret.op = "httpGet" /\ ret.route = "/api/metrics") =>
         ret.val.whaleCount = Cardinality(WhaleIndices)
    /\ (ret.op = "httpGet" /\ ret.route = "/health") =>
         ret.val.metrics.whaleCount = Cardinality(WhaleIndices)
    /\ ret.op = "connection" => ret.sent[3].payload = WholeChart
    /\ ret.op = "requestChartUpdate" => ret.sent[1].payload = WholeChart

\* the 10-second timer fired after a trade had been evicted from a full history
C25_Witness ==
  /\ ret.op = "chartTimer"
  /\ Len(processed) > MAX_HISTORY
  /\ Len(ret.seen) = MAX_HISTORY
  /\ ret.seen[1] = processed[Len(processed) - MAX_HISTORY + 1]
  /\ outbox[1].payload.timestamps # <<>>

\* the trade_update and whale_alert broadcasts, as <<event, price, quantity, timestamp>>
IsTradeEmit(e) == e.event \in {"trade_update", "whale_alert"}
TradeEmits ==
  LET sel == SelectSeq(emitLog, IsTradeEmit)
  IN [k \in 1..Len(sel) |->
        <<sel[k].event, sel[k].payload.price, sel[k].payload.quantity, sel[k].payload.timestamp>>]

\* one trade_update per handled trade, followed by one whale_alert when the
\* trade is a whale, trade after trade in arrival order
RECURSIVE ExpectedEmits(_)
ExpectedEmits(n) ==
  IF n = 0 THEN <<>>
  ELSE LET r == processed[n]
           key(event) == <<event, [fixed |-> r.price, digits |-> 2],
                           [fixed |-> r.quantity, digits |-> 6], [iso |-> r.timestamp]>>
       IN ExpectedEmits(n - 1) \o <<key("trade_update")>>
            \o (IF IsWhaleRecord(r) THEN <<key("whale_alert")>> ELSE <<>>)

Broadcast(event) == \E i \in 1..Len(outbox) : outbox[i].event = event

\* C27: the message handler broadcasts chart_data and metrics_update on
\* exactly one out of every 5 processed trades (the 5th, 10th, ...), also
\* after tradeHistory has reached MAX_HISTORY entries.
C27_ThrottledEveryFive ==
  (ret.op = "onMessage" /\ ~ret.logged) =>
    /\ Broadcast("chart_data") <=> (Len(processed) % 5 = 0)
    /\ Broadcast("metrics_update") <=> (Len(processed) % 5 = 0)

\* C28: once SIGINT has been handled, no reconnect is scheduled and no
\* connectToBinance call is made: the close event caused by the shutdown
\* starts no new upstream connection.
C28_NoReconnectAfterShutdown ==
  [][shutdown # "running" =>
       /\ reconnectTimers' <= reconnectTimers
       /\ connects' = connects]_vars

\* the whale records now in tradeHistory
WhalesInHistory == {i \in 1..Len(tradeHistory) : tradeHistory[i].isWhale}

\* a processTrade call that evicts a whale record
EvictsWhale ==
  /\ calls' = calls + 1
  /\ Len(tradeHistory) = MAX_HISTORY
  /\ tradeHistory[1].isWhale

\* C30: in every state the number of whale records in tradeHistory is at
\* most whaleCount, and whaleCount > 0 exactly when maxWhaleAmount > 500000
\* and lastWhaleTime is not null; the eviction of a whale record from
\* tradeHistory decreases neither whaleCount nor maxWhaleAmount.
C30_WhaleCountConsistent ==
  /\ [](Cardinality(WhalesInHistory) <= metrics.whaleCount)
  /\ [](~metrics.maxWhaleAmount.nan)
  /\ [](metrics.whaleCount > 0 <=>
          (metrics.maxWhaleAmount.v > 500000 /\ metrics.lastWhaleTime # Null))
  /\ [](metrics.whaleCount = 0 =>
          (metrics.maxWhaleAmount.v = 0 /\ metrics.lastWhaleTime = Null))
  /\ [][EvictsWhale =>
          /\ metrics'.whaleCount >= metrics.whaleCount
          /\ metrics'.maxWhaleAmount.v >= metrics.maxWhaleAmount.v]_vars

\* the only whale processed has been evicted and is still counted
C30_Witness ==
  /\ Len(processed) > MAX_HISTORY
  /\ WhalesInHistory = {}
  /\ metrics.whaleCount = 1
  /\ metrics.maxWhaleAmount = Num(1200000)
  /\ metrics.lastWhaleTime # Null

(***************************************************************************)
(* Frame of reset().                                                       *)
(***************************************************************************)
\* the detector instance after the step
SelfAfter == [tradeHistory |-> tradeHistory', lastPrice |-> lastPrice',
              aggregatedVolume |-> aggregatedVolume',
              lastVolumeResetTime |-> lastVolumeResetTime', metrics |-> metrics']

\* a reset() call: lastPrice and lastVolumeResetTime are kept, getMetrics()
\* reports the price of the last trade processed and an hourlyVolume of 0
ResetKeepsPriceAndTime ==
  (ret'.op = "reset" /\ ret.op # "reset") =>
    /\ lastPrice' = lastPrice
    /\ lastVolumeResetTime' = lastVolumeResetTime
    /\ getMetrics(SelfAfter).ret.currentPrice = lastPrice
    /\ ret.op = "processTrade" => getMetrics(SelfAfter).ret.currentPrice = ret.val.price
    /\ getMetrics(SelfAfter).ret.hourlyVolume = [fixed |-> Num(0), digits |-> 4]

\* the first processTrade call after a reset(): the 60 seconds are measured
\* from the reset time the detector had before the reset()
FirstTradeAfterReset ==
  (ret.op = "reset" /\ calls' = calls + 1) =>
    IF now - lastVolumeResetTime > 60000
    THEN aggregatedVolume' = Num(0) /\ lastVolumeResetTime' = now
    ELSE aggregatedVolume' = ret'.val.quantity /\ lastVolumeResetTime' = lastVolumeResetTime

\* C31: reset() leaves lastPrice and lastVolumeResetTime unchanged: after it
\* getMetrics() still reports the price of the last trade processed before
\* the reset as currentPrice and 0 as hourlyVolume, and the next 60-second
\* volume reset is measured from the lastVolumeResetTime of before the reset.
C31_ResetFrame ==
  /\ [][ResetKeepsPriceAndTime]_vars
  /\ [][FirstTradeAfterReset]_vars
  /\ [](ret.op = "reset" => aggregatedVolume = Num(0))

\* reset() was called 60001 ms after construction, after a trade at 600000:
\* the price is still reported and the volume reset time is still the old one
C31_Witness ==
  /\ ret.op = "reset"
  /\ lastPrice = Num(600000)
  /\ getMetrics(Self).ret.currentPrice = Num(600000)
  /\ lastVolumeResetTime = StartTime
  /\ now = StartTime + 60001

====
